---- MODULE Spec2Model ----
(***************************************************************************)
(* SimpleEQ: the lock-free Fifo, the SingleChannelSampleFifo sampler, the  *)
(* cut-filter slope update, the display chain's refresh protocol, the      *)
(* processor's filter updates on its two real-time chains, and the         *)
(* analyser's PathProducer (blocks to FFT frames to paths).                *)
(* The host's bus layout and the channel each chain and sampler reads are  *)
(* part of the processor's model.                                          *)
(*                                                                         *)
(* Source files: src/unnamed/part_001 (the processor header: Fifo,         *)
(* SingleChannelSampleFifo, update, updateCutFilter),                      *)
(* src/unnamed/part_000 (the editor: ResponseCurveComponent),              *)
(* src/Source/PluginProcessor.cpp, src/Source/PluginEditor.h.              *)
(*                                                                         *)
(* juce::AbstractFifo and juce::Atomic are JUCE library classes; the Fifo  *)
(* of part_001 is built on them, and they are modelled here by what        *)
(* juce_AbstractFifo.cpp does (prepareToWrite / finishedWrite /            *)
(* prepareToRead / finishedRead on two atomic cursors, keeping one slot    *)
(* free to tell a full buffer from an empty one).                          *)
(***************************************************************************)
EXTENDS Integers, Naturals, Sequences, FiniteSets, TLC

VARIABLES
    fifo,        \* Fifo<T>: [buffers, validStart, validEnd]
    out,         \* the consumer's output object (the T& t handed to pull)
    nextItem,    \* number of the next item the producer hands to push
    pushedOk,    \* history: the items whose push returned true, in order
    pulled,      \* history: the items successful pulls returned, in order
    last,        \* history: the last Fifo call, its result and the state before it
    run,         \* history: the current "N pushes then N pulls" run
    prod,        \* producer thread inside Fifo::push: [pc, w, t], pc 0 = not in a call
    cons,        \* consumer thread inside Fifo::pull: [pc, r], pc 0 = not in a call
    sampler,     \* SingleChannelSampleFifo: [fifoIndex, bufferToFill, prepared, size]
    audioBufferFifo, \* SingleChannelSampleFifo::audioBufferFifo, a Fifo of blocks
    buf,         \* the block object the consumer hands to getAudioBuffer
    shist,       \* history of the sampler since its last prepare
    cutFilter,   \* a CutFilter: [bypassed, coefficients], stages 0..3
    cutCall,     \* history: the last updateCutFilter call [slope, calls, before]
    params,      \* apvts raw parameter values: [peakGain, lowCutSlope, highCutSlope]
    listener,    \* the thread changing a parameter: "idle" or "notify"
    parametersChanged, \* ResponseCurveComponent::parametersChanged (juce::Atomic<bool>)
    timer,       \* the timer thread inside timerCallback: [pc, chainSettings, readVer]
    monoChain,   \* ResponseCurveComponent::monoChain: [lowCut, peak, highCut]
    dhist,       \* history of notifications, ticks and refreshes
    sampleRate,  \* AudioProcessor::getSampleRate(): 0 until the host prepares the processor
    chainsPrepared, \* prepareToPlay has prepared leftChain and rightChain
    leftChain,   \* SimpleEQAudioProcessor::leftChain, a MonoChain
    rightChain,  \* SimpleEQAudioProcessor::rightChain, a MonoChain
    coefficientsPtr, \* the Coefficients object each chain's Peak filter points to
    thread,      \* the audio and the message thread inside updateFilters: [pc, ...]
    ahist,       \* history of processBlock, setStateInformation and the chain writes
    responseCurve,\* what the last ResponseCurveComponent::paint drew
    monoBuffer,  \* PathProducer::monoBuffer, the last getFFTSize samples pulled
    fftDataFifo, \* FFTDataGenerator::fftDataFifo, a Fifo of FFT frames
    pathFifo,    \* AnalyserPathGenerator::pathFifo, a Fifo of paths
    leftChannelFFTPath, \* PathProducer::leftChannelFFTPath, the path the editor draws
    pp,          \* the timer thread inside PathProducer::process: [pc], pc 0 = not in a call
    phist,       \* history of the ticks of PathProducer::process
    busesLayout  \* the bus layout the host has set: channels of the main [in, out] buses

fifoVars == <<fifo, out, nextItem, pushedOk, pulled, last, run, prod, cons>>
samplerVars == <<sampler, audioBufferFifo, buf, shist>>
cutVars == <<cutFilter, cutCall>>
displayVars == <<params, listener, parametersChanged, timer, monoChain, dhist>>
procVars == <<sampleRate, chainsPrepared, leftChain, rightChain, coefficientsPtr, thread, ahist, responseCurve>>
pathVars == <<monoBuffer, fftDataFifo, pathFifo, leftChannelFFTPath, pp, phist>>
hostVars == <<busesLayout>>

vars == <<fifoVars, samplerVars, cutVars, displayVars, procVars, pathVars, hostVars>>

-----------------------------------------------------------------------------
(* Bounds of the model *)

MaxPush == 31      \* push calls made by the producer
MaxPull == 31      \* successful pull calls made by the consumer
MaxSamples == 32   \* samples fed to the sampler before and after its prepare
MaxBlockSize == 2  \* largest bufferSize handed to SingleChannelSampleFifo::prepare
MaxCutCalls == 2   \* updateCutFilter calls made on one cut filter
MaxChanges == 2    \* parameter changes made by the listener thread
MaxBlocks == 2     \* processBlock calls made by the audio thread
MaxRestores == 1   \* setStateInformation calls made by the message thread
MaxTicks == 1      \* calls of PathProducer::process made by the timer thread
MaxPaths == 2      \* calls of generatePath made on frames of any content
MaxBuffers == 6    \* calls of update with a whole host buffer

(* Program constants *)

Capacity == 30     \* Fifo::Capacity

-----------------------------------------------------------------------------
(* Small helpers *)

Min(a, b) == IF a < b THEN a ELSE b

Slots == 0 .. (Capacity - 1)

\* A payload T has two fields; a copy T = T copies them one after the other.
Item(n) == <<n, n>>

\* std::array<T, Capacity> buffers: value-initialised payloads.
DefaultT == Item(0)

-----------------------------------------------------------------------------
(* juce::AbstractFifo fifo{ Capacity } *)

NewFifo(t) == [buffers |-> [i \in Slots |-> t], validStart |-> 0, validEnd |-> 0]

\* AbstractFifo::getNumReady
getNumReady(vs, ve) == IF ve >= vs THEN ve - vs ELSE Capacity - (vs - ve)

\* Fifo::getNumAvailableForReading
getNumAvailableForReading(f) == getNumReady(f.validStart, f.validEnd)

NoBlock == [startIndex1 |-> 0, blockSize1 |-> 0, startIndex2 |-> 0, blockSize2 |-> 0]

\* AbstractFifo::prepareToWrite: one slot is always kept free.
prepareToWrite(vs, ve, numToWrite) ==
    LET freeSpace == IF ve >= vs THEN Capacity - (ve - vs) ELSE vs - ve
        n == Min(numToWrite, freeSpace - 1)
        b1 == Min(Capacity - ve, n)
    IN  IF n <= 0
        THEN NoBlock
        ELSE [startIndex1 |-> ve, blockSize1 |-> b1, startIndex2 |-> 0,
              blockSize2 |-> IF n - b1 <= 0 THEN 0 ELSE Min(n - b1, vs)]

\* AbstractFifo::prepareToRead
prepareToRead(vs, ve, numWanted) ==
    LET n == Min(numWanted, getNumReady(vs, ve))
        b1 == Min(Capacity - vs, n)
    IN  IF n <= 0
        THEN NoBlock
        ELSE [startIndex1 |-> vs, blockSize1 |-> b1, startIndex2 |-> 0,
              blockSize2 |-> IF n - b1 <= 0 THEN 0 ELSE Min(n - b1, ve)]

\* AbstractFifo::finishedWrite, run by ~ScopedWrite with blockSize1 + blockSize2
finishedWrite(f, numWritten) ==
    LET newEnd == f.validEnd + numWritten
    IN  [f EXCEPT !.validEnd = IF newEnd >= Capacity THEN newEnd - Capacity ELSE newEnd]

\* AbstractFifo::finishedRead, run by ~ScopedRead with blockSize1 + blockSize2
finishedRead(f, numRead) ==
    LET newStart == f.validStart + numRead
    IN  [f EXCEPT !.validStart = IF newStart >= Capacity THEN newStart - Capacity ELSE newStart]

-----------------------------------------------------------------------------
(* Fifo<T>::push and Fifo<T>::pull, each as one call *)

\* A push that copies into the slot before it tests blockSize1.
push_CopyUnguarded(f, t) ==
    LET w == prepareToWrite(f.validStart, f.validEnd, 1)
        g == [f EXCEPT !.buffers[w.startIndex1] = t]
    IN  [fifo |-> finishedWrite(g, w.blockSize1 + w.blockSize2), ok |-> w.blockSize1 > 0]

push(f, t) ==
    LET w == prepareToWrite(f.validStart, f.validEnd, 1)
    IN  IF w.blockSize1 > 0
        THEN [fifo |-> finishedWrite([f EXCEPT !.buffers[w.startIndex1] = t],
                                     w.blockSize1 + w.blockSize2),
              ok |-> TRUE]
        ELSE [fifo |-> finishedWrite(f, w.blockSize1 + w.blockSize2), ok |-> FALSE]

\* A pull that copies the slot before it tests blockSize1.
pull_CopyUnguarded(f, t) ==
    LET r == prepareToRead(f.validStart, f.validEnd, 1)
    IN  [fifo |-> finishedRead(f, r.blockSize1 + r.blockSize2),
         ok |-> r.blockSize1 > 0, t |-> f.buffers[r.startIndex1]]

\* A pull that takes the newest item instead of the oldest.
pull_Newest(f, t) ==
    LET r == prepareToRead(f.validStart, f.validEnd, 1)
        newest == IF f.validEnd = 0 THEN Capacity - 1 ELSE f.validEnd - 1
    IN  IF r.blockSize1 > 0
        THEN [fifo |-> finishedRead(f, r.blockSize1 + r.blockSize2),
              ok |-> TRUE, t |-> f.buffers[newest]]
        ELSE [fifo |-> finishedRead(f, r.blockSize1 + r.blockSize2), ok |-> FALSE, t |-> t]

pull(f, t) ==
    LET r == prepareToRead(f.validStart, f.validEnd, 1)
    IN  IF r.blockSize1 > 0
        THEN [fifo |-> finishedRead(f, r.blockSize1 + r.blockSize2),
              ok |-> TRUE, t |-> f.buffers[r.startIndex1]]
        ELSE [fifo |-> finishedRead(f, r.blockSize1 + r.blockSize2), ok |-> FALSE, t |-> t]

-----------------------------------------------------------------------------
(* SingleChannelSampleFifo<BlockType> *)

\* juce::AudioBuffer<float> with one channel of n cleared samples
ZeroBlock(n) == [i \in 1 .. n |-> 0]

\* SingleChannelSampleFifo(Channel ch): nothing allocated, not prepared
NewSampler == [fifoIndex |-> 0, bufferToFill |-> ZeroBlock(0), prepared |-> FALSE, size |-> 0]

\* The last update call completed no block.
NoSamplerPush == [tried |-> FALSE, ok |-> FALSE, before |-> <<>>, block |-> <<>>]

NoSamplerHistory ==
    [fed |-> 0, pulledBlocks |-> <<>>, emptyAtPrepare |-> FALSE, dropped |-> FALSE,
     oob |-> FALSE, last |-> NoSamplerPush, buffers |-> 0]

-----------------------------------------------------------------------------
(* CutFilter = ProcessorChain<Filter, Filter, Filter, Filter> *)

Stages == 0 .. 3
Slopes == 0 .. 3     \* Slope_12, Slope_24, Slope_36, Slope_48

\* The coefficients of a default-constructed IIR::Filter (pass-through).
DefaultCoefficients == [kind |-> "default", order |-> 0, section |-> 0]

\* ProcessorChain: no stage bypassed after construction.
NewCutFilter ==
    [bypassed |-> [i \in Stages |-> FALSE], coefficients |-> [i \in Stages |-> DefaultCoefficients]]

NoCutCall == [slope |-> 0, calls |-> 0, before |-> [i \in Stages |-> FALSE]]

\* makeLowCutFilter / makeHighCutFilter: the Butterworth design of order
\* 2 * (slope + 1) comes as slope + 1 second-order sections, indices 0..slope.
makeCutFilter(kind, slope) ==
    [i \in 0 .. slope |-> [kind |-> kind, order |-> 2 * (slope + 1), section |-> i]]

\* updateCoefficients(old, replacements): *old = *replacements
updateCoefficients(old, replacements) == replacements

\* template<int Index> update(chain, coefficients)
update(Index, chain, coefficients) ==
    [chain EXCEPT !.coefficients[Index] = updateCoefficients(@, coefficients[Index]),
                  !.bypassed[Index] = FALSE]

\* The case labels of the switch in updateCutFilter, in source order; the
\* case for label L runs update<L>.
SwitchLabels == <<3, 2, 1, 0>>

\* A switch whose cases each end in a break: only the selected case runs.
CasesRun_Break(slope) == <<slope>>

\* The cases a switch on slope runs: it enters at the label of slope and,
\* no case ending in a break, falls through every case below it.
CasesRun(slope) ==
    LET at == CHOOSE k \in 1 .. Len(SwitchLabels) : SwitchLabels[k] = slope
    IN  SubSeq(SwitchLabels, at, Len(SwitchLabels))

RECURSIVE RunCases(_, _, _)
RunCases(chain, coefficients, cases) ==
    IF cases = <<>> THEN chain
    ELSE RunCases(update(Head(cases), chain, coefficients), coefficients, Tail(cases))

\* updateCutFilter(chain, cutCoefficients, slope)
updateCutFilter(chain, cutCoefficients, slope) ==
    LET allBypassed == [chain EXCEPT !.bypassed = [i \in Stages |-> TRUE]]
    IN  RunCases(allBypassed, cutCoefficients, CasesRun(slope))

-----------------------------------------------------------------------------
(* The parameter store and the display chain of ResponseCurveComponent.    *)
(* Of the seven parameters the peak gain and the two slopes are modelled;  *)
(* the three frequencies and the peak quality are held at their defaults.  *)

PeakGains == {0, 24}

\* createParameterLayout: Peak Gain 0.0, LowCut Slope 0, HighCut Slope 0
DefaultParams == [peakGain |-> 0, lowCutSlope |-> 0, highCutSlope |-> 0]

ParamValues(name) == IF name = "peakGain" THEN PeakGains ELSE Slopes

\* ChainSettings settings; in getChainSettings, before any load
NewChainSettings == [peakGain |-> 0, lowCutSlope |-> 0, highCutSlope |-> 0]

\* The coefficients of a default-constructed Peak filter: numerator b and
\* denominator a of the pass-through filter, designed from nothing.
DefaultPeakCoefficients == [kind |-> "default", b |-> <<0, 0>>, a |-> <<0, 0>>]

\* makePeakFilter(chainSettings, sampleRate): the numerator b and the
\* denominator a are both computed from the gain and the sample rate (the
\* peak frequency and quality are held at their defaults). No test of
\* sampleRate comes before the design.
makePeakFilter(chainSettings, rate) ==
    LET design == <<chainSettings.peakGain, rate>>
    IN  [kind |-> "peak", b |-> design, a |-> design]

\* MonoChain = ProcessorChain<CutFilter, Filter, CutFilter>
NewMonoChain ==
    [lowCut |-> NewCutFilter,
     peak |-> [bypassed |-> FALSE, coefficients |-> DefaultPeakCoefficients],
     highCut |-> NewCutFilter]

\* ResponseCurveComponent::updateChain, from make* to the last updateCutFilter;
\* rate is audioProcessor.getSampleRate()
updateChain(chain, chainSettings, rate) ==
    [lowCut |-> updateCutFilter(chain.lowCut,
                                makeCutFilter("lowcut", chainSettings.lowCutSlope),
                                chainSettings.lowCutSlope),
     peak |-> [chain.peak EXCEPT
                  !.coefficients = updateCoefficients(@, makePeakFilter(chainSettings, rate))],
     highCut |-> updateCutFilter(chain.highCut,
                                 makeCutFilter("highcut", chainSettings.highCutSlope),
                                 chainSettings.highCutSlope)]

\* The constructor of ResponseCurveComponent ends with updateChain(); the
\* editor is created on a processor that was not prepared yet, whose
\* getSampleRate() is 0.
ConstructedMonoChain == updateChain(NewMonoChain, DefaultParams, 0)

IdleTimer == [pc |-> "idle", chainSettings |-> NewChainSettings, readVer |-> 0]

NoTick == [ran |-> FALSE, notifiedBefore |-> FALSE, flagAfter |-> FALSE, burst |-> 0]

NoDisplayHistory ==
    [changes |-> 0,        \* parameter changes made
     notifiedVer |-> 0,    \* changes whose notification was delivered
     notified |-> FALSE,   \* a notification came since the last tick that refreshed
     burst |-> 0,          \* notifications since the last tick that refreshed
     lastTick |-> NoTick,  \* what the last tick found and did at its compare-and-set
     refreshes |-> 0,      \* ticks that ran updateChain (capped at 2)
     shownVer |-> 0]       \* every value the display chain shows is this new

-----------------------------------------------------------------------------
(* SimpleEQAudioProcessor: the sample rate, leftChain and rightChain, and   *)
(* the two threads that run updateFilters: the audio thread in processBlock *)
(* and the message thread in setStateInformation.                          *)

\* The sample rate the host hands to prepareToPlay.
SampleRates == {44100}

\* The states a host restores with setStateInformation.
StateTrees ==
    {[peakGain |-> 24, lowCutSlope |-> 1, highCutSlope |-> 2],
     [peakGain |-> 0, lowCutSlope |-> 3, highCutSlope |-> 0]}

\* Data from which ValueTree::readFromData builds no valid tree.
InvalidTree == [peakGain |-> 0 - 1, lowCutSlope |-> 0 - 1, highCutSlope |-> 0 - 1]

Threads == {"audio", "message"}

\* Each Filter allocates its own Coefficients object in its constructor;
\* the objects are named after the chain whose Peak filter allocated them.
NewCoefficientsPtr == [mono |-> "mono", left |-> "left", right |-> "right"]

\* A thread that is not inside processBlock or setStateInformation; the
\* locals of updateFilters (chainSettings, peakCoefficients), the object an
\* updateCoefficients call found (before) and what chain.process has read
\* so far (seen).
IdleThread ==
    [pc |-> 0, chainSettings |-> NewChainSettings,
     peakCoefficients |-> DefaultPeakCoefficients,
     before |-> DefaultPeakCoefficients, seen |-> NewMonoChain]

\* enum Channel { Right, Left }
Right == 0
Left == 1

\* leftChannelFifo { Channel::Left }, rightChannelFifo { Channel::Right }:
\* the buffer channel each sampler's update reads (channelToUse).
channelToUse == [left |-> Left, right |-> Right]

\* The number of channels of juce::AudioChannelSet::mono() and ::stereo().
monoChannels == 1
stereoChannels == 2

\* The channel sets a host proposes for a main bus, by number of channels:
\* disabled, mono, stereo, and one with three channels.
ChannelSets == 0 .. (stereoChannels + 1)

\* The constructor's BusesProperties: a stereo input and a stereo output.
DefaultLayout == [in |-> stereoChannels, out |-> stereoChannels]

NoFiltered ==
    [done |-> FALSE, chain |-> "left", prepared |-> FALSE, rate |-> 0,
     settings |-> NewChainSettings, used |-> NewMonoChain,
     channel |-> 0, numChannels |-> stereoChannels]

NoUpdate ==
    [done |-> FALSE, by |-> "audio", chain |-> "left", ptrBefore |-> "left",
     ptrAfter |-> "left", objBefore |-> DefaultPeakCoefficients,
     objAfter |-> DefaultPeakCoefficients, replacements |-> DefaultPeakCoefficients]

NoAudioHistory ==
    [blocks |-> 0,             \* processBlock calls begun
     restores |-> 0,           \* setStateInformation calls begun
     writers |-> {},           \* the threads that wrote a chain since prepareToPlay
     overlap |-> FALSE,        \* another thread wrote a chain while processBlock ran
     lastUpdate |-> NoUpdate,  \* the last updateCoefficients call that returned
     filtered |-> NoFiltered]  \* what the last chain.process call filtered with

\* FFTDataGenerator::getFFTSize, 1 << order: the frame is longer than any
\* block the host hands over; scaled to the block sizes of the model.
getFFTSize == MaxBlockSize + 1

\* A float that is neither NaN nor infinite, and one that is.
Finite(v) == [fin |-> TRUE, v |-> v]
NonFinite(v) == [fin |-> FALSE, v |-> v]

\* A float of a new allocation that nothing has written yet.
Indeterminate == 0 - 1

\* The negativeInfinity process hands to produceFFTDataForRendering and to
\* generatePath: -48.f
negativeInfinity == 0 - 48

\* A level in decibels that gainToDecibels returned.
Decibels(db) == Finite(<<"dB", db, <<>>>>)

\* The level of bin i of the transform of samples, which is not computed.
Bin(i, samples) == Finite(<<"bin", i, samples>>)

\* monoBuffer.setSize(1, getFFTSize()): AudioBuffer::setSize does not clear
\* the samples of a new allocation.
NewMonoBuffer == [i \in 1 .. getFFTSize |-> Indeterminate]

\* changeOrder: fftData.resize(fftSize * 2, 0), and every slot of
\* fftDataFifo prepared with as many zeros.
ZeroFFTData == [i \in 1 .. 2 * getFFTSize |-> Finite(0)]

\* juce::Path p: a path of no points. A point of a path is [x, y].
NoPath == <<>>

\* The timer thread is not inside PathProducer::process.
IdlePathProducer == [pc |-> 0]

\* No tick has run: [ticks made, blocks pulled by the last tick, frames the
\* last tick could not push, calls of generatePath, the frame the last call
\* of produceFFTDataForRendering computed].
NoPathHistory == [ticks |-> 0, pulled |-> 0, framesDropped |-> 0, paths |-> 0, frame |-> <<>>]

\* paint has not run yet.
NoCurve == [drawn |-> FALSE, stages |-> <<>>]

-----------------------------------------------------------------------------
(* One producer and one consumer calling push and pull, call by call *)

NoCall == [op |-> "none", ok |-> FALSE, item |-> 0, pre |-> NewFifo(DefaultT),
           outBefore |-> DefaultT]

NoRun == [phase |-> "none", n |-> 0, base |-> 0, start |-> 0]

IdleProd == [pc |-> 0, w |-> NoBlock, t |-> DefaultT]
IdleCons == [pc |-> 0, r |-> NoBlock]

\* The state after construction of every object.
Init ==
    /\ fifo = NewFifo(DefaultT)
    /\ out = DefaultT
    /\ nextItem = 1
    /\ pushedOk = <<>>
    /\ pulled = <<>>
    /\ last = NoCall
    /\ run = NoRun
    /\ prod = IdleProd
    /\ cons = IdleCons
    /\ sampler = NewSampler
    /\ audioBufferFifo = NewFifo(ZeroBlock(0))
    /\ buf = ZeroBlock(0)
    /\ shist = NoSamplerHistory
    /\ cutFilter = NewCutFilter
    /\ cutCall = NoCutCall
    /\ params = DefaultParams
    /\ listener = "idle"
    /\ parametersChanged = FALSE
    /\ timer = IdleTimer
    /\ monoChain = ConstructedMonoChain
    /\ dhist = NoDisplayHistory
    /\ sampleRate = 0
    /\ chainsPrepared = FALSE
    /\ leftChain = NewMonoChain
    /\ rightChain = NewMonoChain
    /\ coefficientsPtr = NewCoefficientsPtr
    /\ thread = [t \in Threads |-> IdleThread]
    /\ ahist = NoAudioHistory
    /\ responseCurve = NoCurve
    /\ monoBuffer = NewMonoBuffer
    /\ fftDataFifo = NewFifo(ZeroFFTData)
    /\ pathFifo = NewFifo(NoPath)
    /\ leftChannelFFTPath = NoPath
    /\ pp = IdlePathProducer
    /\ phist = NoPathHistory
    /\ busesLayout = DefaultLayout

\* The producer calls push(Item(nextItem)).
Push ==
    /\ nextItem <= MaxPush
    /\ LET res == push(fifo, Item(nextItem))
           wasEmpty == getNumAvailableForReading(fifo) = 0
       IN  /\ fifo' = res.fifo
           /\ pushedOk' = IF res.ok THEN Append(pushedOk, Item(nextItem)) ELSE pushedOk
           /\ last' = [op |-> "push", ok |-> res.ok, item |-> nextItem, pre |-> fifo,
                       outBefore |-> out]
           /\ run' = IF ~res.ok THEN run
                     ELSE IF wasEmpty
                          THEN [phase |-> "push", n |-> 1, base |-> Len(pulled),
                                start |-> fifo.validEnd]
                     ELSE IF run.phase = "push" THEN [run EXCEPT !.n = @ + 1]
                     ELSE [run EXCEPT !.phase = "none"]
    /\ nextItem' = nextItem + 1
    /\ UNCHANGED <<out, pulled, prod, cons, samplerVars, cutVars, displayVars, procVars, pathVars, hostVars>>

\* The consumer calls pull(out).
Pull ==
    /\ Len(pulled) < MaxPull
    /\ LET res == pull(fifo, out)
       IN  /\ fifo' = res.fifo
           /\ out' = res.t
           /\ pulled' = IF res.ok THEN Append(pulled, res.t) ELSE pulled
           /\ last' = [op |-> "pull", ok |-> res.ok, item |-> 0, pre |-> fifo,
                       outBefore |-> out]
           /\ run' = IF res.ok /\ run.phase \in {"push", "pull"}
                     THEN [run EXCEPT !.phase = "pull"]
                     ELSE run
    /\ UNCHANGED <<nextItem, pushedOk, prod, cons, samplerVars, cutVars, displayVars, procVars, pathVars, hostVars>>

FifoNext == Push \/ Pull

SpecFifo == Init /\ [][FifoNext]_vars

-----------------------------------------------------------------------------
(* Claims about the Fifo, one call at a time (SpecFifo) *)

\* AbstractFifo::getFreeSpace
getFreeSpace(f) == Capacity - getNumAvailableForReading(f) - 1

\* The pull run that started on the empty Fifo of construction, after all
\* MaxPush = 31 push calls were made with no pull in between.
C4_Scenario == run.phase = "pull" /\ run.base = 0 /\ nextItem = 32

\* C4: from an empty capacity-30 Fifo, of 31 push calls with no pull in
\* between the first 30 return true and the 31st returns false, and the pulls
\* that follow return true and yield the pushed items 1..30 in order.
C4_Claim ==
    /\ (last.op = "push" /\ Len(pulled) = 0 /\ last.item <= 30) => last.ok
    /\ (last.op = "push" /\ Len(pulled) = 0 /\ last.item = 31) => ~last.ok
    /\ C4_Scenario =>
          /\ \A j \in 1 .. Len(pulled) : pulled[j] = Item(j)
          /\ (last.op = "pull" /\ Len(pulled) < 30) => last.ok

\* Number of items of the current run already pulled.
RunPulled == Len(pulled) - run.base

\* C5: N successful pushes on an empty Fifo followed by pulls: the k-th pull
\* of the run succeeds and returns the k-th pushed item of the run, unchanged,
\* and after N pulls the Fifo is empty again (also with wrapped cursors).
C5_FifoOrder ==
    run.phase = "pull" =>
        /\ RunPulled \in 1 .. run.n
        /\ \A j \in 1 .. RunPulled :
              pulled[run.base + j] = pushedOk[Len(pushedOk) - run.n + j]
        /\ getNumAvailableForReading(fifo) = run.n - RunPulled
        /\ (last.op = "pull" /\ ~last.ok) => RunPulled = run.n

\* A run of Capacity - 1 pushes, then as many pulls, whose slots wrapped
\* around the end of the array.
C5_Witness ==
    /\ run.phase = "pull"
    /\ run.n = Capacity - 1
    /\ RunPulled = run.n
    /\ run.start > 0
    /\ run.start + run.n > Capacity

\* C6: a push on a full Fifo (no free space) returns false and leaves every
\* slot and both cursors as they were.
C6_FullPushNoEffect ==
    (last.op = "push" /\ getFreeSpace(last.pre) = 0) => (~last.ok /\ fifo = last.pre)

C6_Witness ==
    /\ last.op = "push"
    /\ getFreeSpace(last.pre) = 0
    /\ last.pre.validStart > 0
    /\ ~last.ok

\* C7: a pull on an empty Fifo returns false, leaves the caller's output
\* object as it was and leaves slots and cursors unchanged.
C7_EmptyPullNoEffect ==
    (last.op = "pull" /\ getNumAvailableForReading(last.pre) = 0) =>
        (~last.ok /\ out = last.outBefore /\ fifo = last.pre)

C7_Witness ==
    /\ last.op = "pull"
    /\ getNumAvailableForReading(last.pre) = 0
    /\ Len(pulled) > 1
    /\ ~last.ok

-----------------------------------------------------------------------------
(* Fifo<T>::push on the producer thread and Fifo<T>::pull on the consumer  *)
(* thread, statement by statement (SpecSPSC). validStart and validEnd are  *)
(* atomics; the payload copy is not: it copies field after field.          *)

\* A push that publishes the write cursor before it copies the payload.
PushSteps_PublishFirst == <<"publish", "copyA", "copyB">>

\* The statements of a push that found room, after fifo.write(1):
\* buffers[startIndex1] = t, then ~ScopedWrite runs finishedWrite.
PushSteps == <<"copyA", "copyB", "publish">>

\* The statements of a pull that found an item, after fifo.read(1):
\* t = buffers[startIndex1], then ~ScopedRead runs finishedRead.
PullSteps == <<"readA", "readB", "publish">>

\* A call that found no room (no item) only runs the destructor.
ProdSteps == IF prod.w.blockSize1 > 0 THEN PushSteps ELSE <<"publish">>
ConsSteps == IF cons.r.blockSize1 > 0 THEN PullSteps ELSE <<"publish">>

ProdAt(step) == prod.pc \in 1 .. Len(ProdSteps) /\ ProdSteps[prod.pc] = step
ConsAt(step) == cons.pc \in 1 .. Len(ConsSteps) /\ ConsSteps[cons.pc] = step

\* After its last statement the call returns.
ProdAdvance == IF prod.pc = Len(ProdSteps) THEN IdleProd ELSE [prod EXCEPT !.pc = @ + 1]
ConsAdvance == IF cons.pc = Len(ConsSteps) THEN IdleCons ELSE [cons EXCEPT !.pc = @ + 1]

\* auto write = fifo.write(1): prepareToWrite loads both cursors.
ProdPrepare ==
    /\ prod.pc = 0
    /\ nextItem <= MaxPush
    /\ LET w == prepareToWrite(fifo.validStart, fifo.validEnd, 1)
       IN  /\ prod' = [pc |-> 1, w |-> w, t |-> Item(nextItem)]
           /\ pushedOk' = IF w.blockSize1 > 0 THEN Append(pushedOk, Item(nextItem))
                          ELSE pushedOk
    /\ nextItem' = nextItem + 1
    /\ UNCHANGED <<fifo, out, pulled, last, run, cons, samplerVars, cutVars, displayVars, procVars, pathVars, hostVars>>

\* buffers[write.startIndex1] = t, first field
ProdCopyA ==
    /\ ProdAt("copyA")
    /\ fifo' = [fifo EXCEPT !.buffers[prod.w.startIndex1][1] = prod.t[1]]
    /\ prod' = ProdAdvance
    /\ UNCHANGED <<out, nextItem, pushedOk, pulled, last, run, cons, samplerVars, cutVars, displayVars, procVars, pathVars, hostVars>>

\* buffers[write.startIndex1] = t, second field
ProdCopyB ==
    /\ ProdAt("copyB")
    /\ fifo' = [fifo EXCEPT !.buffers[prod.w.startIndex1][2] = prod.t[2]]
    /\ prod' = ProdAdvance
    /\ UNCHANGED <<out, nextItem, pushedOk, pulled, last, run, cons, samplerVars, cutVars, displayVars, procVars, pathVars, hostVars>>

\* A push that takes a lock the consumer holds for the length of its pull:
\* the destructor runs only once the consumer is outside pull.
ProdPublish_Locked ==
    /\ cons.pc = 0
    /\ ProdAt("publish")
    /\ fifo' = finishedWrite(fifo, prod.w.blockSize1 + prod.w.blockSize2)
    /\ prod' = ProdAdvance
    /\ UNCHANGED <<out, nextItem, pushedOk, pulled, last, run, cons, samplerVars, cutVars, displayVars, procVars, pathVars, hostVars>>

\* ~ScopedWrite: finishedWrite(blockSize1 + blockSize2)
ProdPublish ==
    /\ ProdAt("publish")
    /\ fifo' = finishedWrite(fifo, prod.w.blockSize1 + prod.w.blockSize2)
    /\ prod' = ProdAdvance
    /\ UNCHANGED <<out, nextItem, pushedOk, pulled, last, run, cons, samplerVars, cutVars, displayVars, procVars, pathVars, hostVars>>

\* auto read = fifo.read(1): prepareToRead loads both cursors.
ConsPrepare ==
    /\ cons.pc = 0
    /\ Len(pulled) < MaxPull
    /\ cons' = [pc |-> 1, r |-> prepareToRead(fifo.validStart, fifo.validEnd, 1)]
    /\ UNCHANGED <<fifo, out, nextItem, pushedOk, pulled, last, run, prod, samplerVars, cutVars, displayVars, procVars, pathVars, hostVars>>

\* t = buffers[read.startIndex1], first field
ConsReadA ==
    /\ ConsAt("readA")
    /\ out' = [out EXCEPT ![1] = fifo.buffers[cons.r.startIndex1][1]]
    /\ cons' = ConsAdvance
    /\ UNCHANGED <<fifo, nextItem, pushedOk, pulled, last, run, prod, samplerVars, cutVars, displayVars, procVars, pathVars, hostVars>>

\* t = buffers[read.startIndex1], second field; the value pull hands back
ConsReadB ==
    /\ ConsAt("readB")
    /\ out' = [out EXCEPT ![2] = fifo.buffers[cons.r.startIndex1][2]]
    /\ pulled' = Append(pulled, out')
    /\ cons' = ConsAdvance
    /\ UNCHANGED <<fifo, nextItem, pushedOk, last, run, prod, samplerVars, cutVars, displayVars, procVars, pathVars, hostVars>>

\* ~ScopedRead: finishedRead(blockSize1 + blockSize2)
ConsPublish ==
    /\ ConsAt("publish")
    /\ fifo' = finishedRead(fifo, cons.r.blockSize1 + cons.r.blockSize2)
    /\ cons' = ConsAdvance
    /\ UNCHANGED <<out, nextItem, pushedOk, pulled, last, run, prod, samplerVars, cutVars, displayVars, procVars, pathVars, hostVars>>

SPSCNext ==
    \/ ProdPrepare \/ ProdCopyA \/ ProdCopyB \/ ProdPublish
    \/ ConsPrepare \/ ConsReadA \/ ConsReadB \/ ConsPublish

SpecSPSC == Init /\ [][SPSCNext]_vars

\* The producer still has a field of its slot to copy.
ProdWriting ==
    /\ prod.pc \in 1 .. Len(ProdSteps)
    /\ \E i \in prod.pc .. Len(ProdSteps) : ProdSteps[i] \in {"copyA", "copyB"}

\* The consumer still has a field of its slot to read.
ConsReading ==
    /\ cons.pc \in 1 .. Len(ConsSteps)
    /\ \E i \in cons.pc .. Len(ConsSteps) : ConsSteps[i] \in {"readA", "readB"}

\* The slots holding published, not yet released items.
UnreadSlots ==
    {(fifo.validStart + k) % Capacity : k \in 0 .. (getNumAvailableForReading(fifo) - 1)}

C8_Safe ==
    /\ Len(pulled) <= Len(pushedOk)
    /\ \A j \in 1 .. Len(pulled) : pulled[j] = pushedOk[j]
    /\ ProdWriting => prod.w.startIndex1 \notin UnreadSlots
    /\ (ProdWriting /\ ConsReading) => prod.w.startIndex1 # cons.r.startIndex1
    /\ ConsReading => cons.r.startIndex1 \in UnreadSlots

\* C8: with one producer in push and one consumer in pull, interleaved
\* statement by statement: the write cursor moves only once the slot holds
\* the whole pushed value and the read cursor only once the whole slot was
\* read; every successful pull returns, whole, the value of one successful
\* push, in push order and without repeats; no slot is written while it is
\* unread or being read.
C8_SPSC ==
    /\ []C8_Safe
    /\ [][(fifo.validEnd' # fifo.validEnd) =>
             fifo.buffers[fifo.validEnd] = prod.t]_vars
    /\ [][(fifo.validStart' # fifo.validStart) =>
             (out = fifo.buffers[fifo.validStart] /\ pulled[Len(pulled)] = out)]_vars

\* The producer is copying into a slot it reuses after wrapping around, while
\* the consumer is in the middle of reading an item.
C8_Witness ==
    /\ ProdWriting
    /\ prod.w.startIndex1 = 0
    /\ nextItem > Capacity
    /\ ConsReading
    /\ cons.pc = 2

-----------------------------------------------------------------------------
(* SingleChannelSampleFifo: prepare, update and getAudioBuffer (SpecSampler) *)
(* The host prepares the sampler once; update has no guard but a jassert,  *)
(* which compiles to nothing in a release build, so it also runs on a      *)
(* sampler that was never prepared.                                        *)

\* The blocks queued in a Fifo, oldest first.
Queued(f) ==
    [k \in 1 .. getNumAvailableForReading(f) |-> f.buffers[(f.validStart + k - 1) % Capacity]]

\* Fifo::prepare(numChannels, numSamples): every slot resized and cleared;
\* the cursors of the AbstractFifo are left as they are.
FifoPrepare(f, numSamples) == [f EXCEPT !.buffers = [i \in Slots |-> ZeroBlock(numSamples)]]

\* A sampler that starts a new block without storing the sample that
\* found the block full.
pushNextSampleIntoFifo_ElseStore(s, a, sample) ==
    LET full == s.fifoIndex = Len(s.bufferToFill)
        res == IF full THEN push(a, s.bufferToFill) ELSE [fifo |-> a, ok |-> TRUE]
        inRange == s.fifoIndex < Len(s.bufferToFill)
    IN  [sampler |-> IF full THEN [s EXCEPT !.fifoIndex = 0]
                     ELSE [s EXCEPT !.bufferToFill[s.fifoIndex + 1] = sample,
                                    !.fifoIndex = @ + 1],
         fifo |-> res.fifo,
         dropped |-> full /\ ~res.ok,
         oob |-> FALSE]

\* A sampler that makes room for a completed block by discarding the oldest
\* queued block when the ring is full.
pushNextSampleIntoFifo_DropOldest(s, a, sample) ==
    LET full == s.fifoIndex = Len(s.bufferToFill)
        first == IF full THEN push(a, s.bufferToFill) ELSE [fifo |-> a, ok |-> TRUE]
        res == IF first.ok THEN first
               ELSE [fifo |-> push(pull(a, s.bufferToFill).fifo, s.bufferToFill).fifo,
                     ok |-> FALSE]
        idx == IF full THEN 0 ELSE s.fifoIndex
        inRange == idx < Len(s.bufferToFill)
    IN  [sampler |-> [s EXCEPT !.bufferToFill = IF inRange
                                                 THEN [@ EXCEPT ![idx + 1] = sample]
                                                 ELSE @,
                               !.fifoIndex = idx + 1],
         fifo |-> res.fifo,
         dropped |-> full /\ ~res.ok,
         oob |-> ~inRange]

\* SingleChannelSampleFifo::pushNextSampleIntoFifo. setSample at an index
\* that is not below getNumSamples() writes outside the block: flagged oob.
pushNextSampleIntoFifo(s, a, sample) ==
    LET full == s.fifoIndex = Len(s.bufferToFill)
        res == IF full THEN push(a, s.bufferToFill) ELSE [fifo |-> a, ok |-> TRUE]
        idx == IF full THEN 0 ELSE s.fifoIndex
        inRange == idx < Len(s.bufferToFill)
    IN  [sampler |-> [s EXCEPT !.bufferToFill = IF inRange
                                                 THEN [@ EXCEPT ![idx + 1] = sample]
                                                 ELSE @,
                               !.fifoIndex = idx + 1],
         fifo |-> res.fifo,
         dropped |-> full /\ ~res.ok,
         oob |-> ~inRange]

\* SingleChannelSampleFifo::prepare(bufferSize)
SamplerPrepare ==
    /\ ~sampler.prepared
    /\ \E bufferSize \in 0 .. MaxBlockSize :
          /\ sampler' = [fifoIndex |-> 0, bufferToFill |-> ZeroBlock(bufferSize),
                         prepared |-> TRUE, size |-> bufferSize]
          /\ audioBufferFifo' = FifoPrepare(audioBufferFifo, bufferSize)
    /\ shist' = [fed |-> 0, pulledBlocks |-> <<>>,
                 emptyAtPrepare |-> getNumAvailableForReading(audioBufferFifo) = 0,
                 dropped |-> FALSE, oob |-> shist.oob, last |-> NoSamplerPush,
                 buffers |-> 0]
    /\ UNCHANGED <<buf, fifoVars, cutVars, displayVars, procVars, pathVars, hostVars>>

\* SingleChannelSampleFifo::update with a buffer of one sample: the sample
\* is the number of samples fed since prepare (or since construction).
SamplerUpdate ==
    /\ shist.fed < MaxSamples
    /\ LET res == pushNextSampleIntoFifo(sampler, audioBufferFifo, shist.fed + 1)
           tried == sampler.fifoIndex = Len(sampler.bufferToFill)
       IN  /\ sampler' = res.sampler
           /\ audioBufferFifo' = res.fifo
           /\ shist' = [shist EXCEPT !.fed = @ + 1,
                                     !.dropped = @ \/ res.dropped,
                                     !.oob = @ \/ res.oob,
                                     !.last = IF tried
                                              THEN [tried |-> TRUE, ok |-> ~res.dropped,
                                                    before |-> Queued(audioBufferFifo),
                                                    block |-> sampler.bufferToFill]
                                              ELSE NoSamplerPush]
    /\ UNCHANGED <<buf, fifoVars, cutVars, displayVars, procVars, pathVars, hostVars>>

\* SingleChannelSampleFifo::getAudioBuffer(buf)
SamplerGetAudioBuffer ==
    /\ LET res == pull(audioBufferFifo, buf)
       IN  /\ audioBufferFifo' = res.fifo
           /\ buf' = res.t
           /\ shist' = [shist EXCEPT !.pulledBlocks = IF res.ok THEN Append(@, res.t) ELSE @,
                                     !.last = NoSamplerPush]
    /\ UNCHANGED <<sampler, fifoVars, cutVars, displayVars, procVars, pathVars, hostVars>>

SamplerNext == SamplerPrepare \/ SamplerUpdate \/ SamplerGetAudioBuffer

SpecSampler == Init /\ [][SamplerNext]_vars

\* The blocks published since prepare: those pulled, then those still queued.
Published == shist.pulledBlocks \o Queued(audioBufferFifo)

\* Prepared with a block size > 0 on an empty ring, and since then no block
\* was dropped and no write went outside the block.
CleanRun ==
    /\ sampler.prepared
    /\ Len(sampler.bufferToFill) > 0
    /\ shist.emptyAtPrepare
    /\ ~shist.dropped
    /\ ~shist.oob

\* C2: after prepare(blockSize), blockSize > 0, on an empty ring, feeding
\* exactly k * blockSize samples one at a time (k >= 1, no overflow) has made
\* exactly k complete blocks available to the consumer.
C2_Claim ==
    (CleanRun /\ shist.fed > 0 /\ shist.fed % Len(sampler.bufferToFill) = 0) =>
        Len(Published) = shist.fed \div Len(sampler.bufferToFill)

\* C3: absent overflow, the j-th block published holds exactly the samples
\* (j-1)*blockSize+1 .. j*blockSize in arrival order, and the samples fed
\* after the last published block are in the block being filled, in order:
\* none lost, duplicated or reordered across block boundaries.
C3_BlocksInOrder ==
    CleanRun =>
        LET n == Len(sampler.bufferToFill)
        IN  /\ \A j \in 1 .. Len(Published) :
                  Published[j] = [i \in 1 .. n |-> (j - 1) * n + i]
            /\ shist.fed = Len(Published) * n + sampler.fifoIndex
            /\ \A i \in 1 .. sampler.fifoIndex :
                  sampler.bufferToFill[i] = Len(Published) * n + i

C3_Witness ==
    /\ CleanRun
    /\ Len(sampler.bufferToFill) = 2
    /\ Len(shist.pulledBlocks) >= 2
    /\ getNumAvailableForReading(audioBufferFifo) >= 2
    /\ sampler.fifoIndex = 1

\* C30: once prepared, the sampler's write cursor stays within 0..blockSize.
\* The cursor is one above the index the last update wrote, so a cursor
\* within the range also says that sample was written below blockSize.
C30_Claim == sampler.prepared => sampler.fifoIndex \in 0 .. Len(sampler.bufferToFill)

\* C16: while the sampler is not prepared, update writes no sample,
\* publishes no block and moves no cursor: the sampler and its ring stay as
\* constructed.
C16_Claim ==
    ~sampler.prepared =>
        /\ sampler = NewSampler
        /\ audioBufferFifo = NewFifo(ZeroBlock(0))
        /\ ~shist.oob

\* C17: on a prepared sampler with block size > 0, a completed block is
\* published exactly when the ring has room; when it has none the block is
\* dropped with the queued blocks left as they were, in content and order;
\* either way the call returns with the sample stored at index 0 of the
\* block being filled (the cursor was reset to zero), and a completed block
\* always holds the blockSize samples fed just before, so blocks completed
\* after a drop are accumulated and published as usual.
C17_DropOnOverflow ==
    (sampler.prepared /\ Len(sampler.bufferToFill) > 0 /\ shist.last.tried) =>
        LET n == Len(sampler.bufferToFill)
            after == Queued(audioBufferFifo)
        IN  /\ shist.last.ok <=> (Len(shist.last.before) < Capacity - 1)
            /\ shist.last.ok => after = Append(shist.last.before, shist.last.block)
            /\ ~shist.last.ok => after = shist.last.before
            /\ sampler.fifoIndex = 1
            /\ sampler.bufferToFill[1] = shist.fed
            /\ shist.last.block = [i \in 1 .. n |-> shist.fed - 1 - n + i]

\* A block was dropped on the full ring, the consumer then took a block,
\* and the next completed block was published.
C17_Witness ==
    /\ sampler.prepared
    /\ Len(sampler.bufferToFill) > 0
    /\ shist.dropped
    /\ shist.last.tried
    /\ shist.last.ok
    /\ Len(shist.last.before) = Capacity - 2

-----------------------------------------------------------------------------
(* update<Index> and updateCutFilter on one cut filter (SpecCut) *)

\* The cut filter starts in any bypass state.
InitCut ==
    /\ fifo = NewFifo(DefaultT)
    /\ out = DefaultT
    /\ nextItem = 1
    /\ pushedOk = <<>>
    /\ pulled = <<>>
    /\ last = NoCall
    /\ run = NoRun
    /\ prod = IdleProd
    /\ cons = IdleCons
    /\ sampler = NewSampler
    /\ audioBufferFifo = NewFifo(ZeroBlock(0))
    /\ buf = ZeroBlock(0)
    /\ shist = NoSamplerHistory
    /\ cutFilter \in [bypassed : [Stages -> BOOLEAN],
                      coefficients : {[i \in Stages |-> DefaultCoefficients]}]
    /\ cutCall = NoCutCall
    /\ params = DefaultParams
    /\ listener = "idle"
    /\ parametersChanged = FALSE
    /\ timer = IdleTimer
    /\ monoChain = ConstructedMonoChain
    /\ dhist = NoDisplayHistory
    /\ sampleRate = 0
    /\ chainsPrepared = FALSE
    /\ leftChain = NewMonoChain
    /\ rightChain = NewMonoChain
    /\ coefficientsPtr = NewCoefficientsPtr
    /\ thread = [t \in Threads |-> IdleThread]
    /\ ahist = NoAudioHistory
    /\ responseCurve = NoCurve
    /\ monoBuffer = NewMonoBuffer
    /\ fftDataFifo = NewFifo(ZeroFFTData)
    /\ pathFifo = NewFifo(NoPath)
    /\ leftChannelFFTPath = NoPath
    /\ pp = IdlePathProducer
    /\ phist = NoPathHistory
    /\ busesLayout = DefaultLayout

\* updateCutFilter(cutFilter, makeLowCutFilter or makeHighCutFilter, slope)
UpdateCutFilter ==
    /\ cutCall.calls < MaxCutCalls
    /\ \E slope \in Slopes, kind \in {"lowcut", "highcut"} :
          /\ cutFilter' = updateCutFilter(cutFilter, makeCutFilter(kind, slope), slope)
          /\ cutCall' = [slope |-> slope, calls |-> cutCall.calls + 1,
                         before |-> cutFilter.bypassed]
    /\ UNCHANGED <<fifoVars, samplerVars, displayVars, procVars, pathVars, hostVars>>

CutNext == UpdateCutFilter

SpecCut == InitCut /\ [][CutNext]_vars

\* C1: after updateCutFilter(chain, coefficients, S), whatever the bypass
\* state before, exactly the stages 0..S are un-bypassed and the stages
\* S+1..3 are bypassed.
C1_SlopeStages ==
    cutCall.calls > 0 =>
        \A i \in Stages : cutFilter.bypassed[i] <=> (i > cutCall.slope)

\* Slope_36 applied to a filter whose stage 3 was active and stage 0 bypassed.
C1_Witness ==
    /\ cutCall.calls > 0
    /\ cutCall.slope = 2
    /\ ~cutCall.before[3]
    /\ cutCall.before[0]
    /\ ~cutFilter.bypassed[0]
    /\ cutFilter.bypassed[3]

-----------------------------------------------------------------------------
(* The listener thread and the timer thread of ResponseCurveComponent      *)
(* (SpecDisplay, and SpecDisplayFair with the 60 Hz timer's fairness)      *)

\* juce::Atomic<bool>::compareAndSetBool(newValue, valueToCompare)
compareAndSetBool(value, newValue, valueToCompare) ==
    [value |-> IF value = valueToCompare THEN newValue ELSE value,
     ok |-> value = valueToCompare]

\* A parameter is given a new value; its listeners are called next.
ParamChange ==
    /\ listener = "idle"
    /\ dhist.changes < MaxChanges
    /\ \E name \in {"peakGain", "lowCutSlope", "highCutSlope"} :
          \E v \in ParamValues(name) \ {params[name]} :
              params' = [params EXCEPT ![name] = v]
    /\ listener' = "notify"
    /\ dhist' = [dhist EXCEPT !.changes = @ + 1]
    /\ UNCHANGED <<parametersChanged, timer, monoChain, fifoVars, samplerVars, cutVars, procVars, pathVars, hostVars>>

\* ResponseCurveComponent::parameterValueChanged
ParameterValueChanged ==
    /\ listener = "notify"
    /\ parametersChanged' = TRUE
    /\ listener' = "idle"
    /\ dhist' = [dhist EXCEPT !.notifiedVer = dhist.changes,
                              !.notified = TRUE,
                              !.burst = Min(@ + 1, MaxChanges)]
    /\ UNCHANGED <<params, timer, monoChain, fifoVars, samplerVars, cutVars, procVars, pathVars, hostVars>>

\* A tick that tests the flag and leaves it set.
TimerCallback_TestOnly ==
    /\ timer.pc = "idle"
    /\ timer' = IF parametersChanged THEN [IdleTimer EXCEPT !.pc = "peakGain"] ELSE IdleTimer
    /\ dhist' = [dhist EXCEPT
                    !.lastTick = [ran |-> parametersChanged, notifiedBefore |-> dhist.notified,
                                  flagAfter |-> parametersChanged, burst |-> dhist.burst],
                    !.notified = IF parametersChanged THEN FALSE ELSE @,
                    !.burst = IF parametersChanged THEN 0 ELSE @,
                    !.refreshes = IF parametersChanged THEN Min(@ + 1, 2) ELSE @]
    /\ UNCHANGED <<parametersChanged, params, listener, monoChain, fifoVars, samplerVars, cutVars, procVars, pathVars, hostVars>>

\* ResponseCurveComponent::timerCallback up to its compare-and-set: when it
\* fails the tick ends (repaint); when it succeeds updateChain() is entered.
\* The two PathProducer::process calls that open the tick work on the
\* samplers' rings and the analyser paths only, and read and write neither
\* the flag, the parameters nor the display chain.
TimerCallback ==
    /\ timer.pc = "idle"
    /\ LET cas == compareAndSetBool(parametersChanged, FALSE, TRUE)
       IN  /\ parametersChanged' = cas.value
           /\ timer' = IF cas.ok THEN [IdleTimer EXCEPT !.pc = "peakGain"] ELSE IdleTimer
           /\ dhist' = [dhist EXCEPT
                           !.lastTick = [ran |-> cas.ok, notifiedBefore |-> dhist.notified,
                                         flagAfter |-> cas.value, burst |-> dhist.burst],
                           !.notified = IF cas.ok THEN FALSE ELSE @,
                           !.burst = IF cas.ok THEN 0 ELSE @,
                           !.refreshes = IF cas.ok THEN Min(@ + 1, 2) ELSE @]
    /\ UNCHANGED <<params, listener, monoChain, fifoVars, samplerVars, cutVars, procVars, pathVars, hostVars>>

\* getChainSettings: settings.peakGainInDecibels = ...->load()
ReadPeakGain ==
    /\ timer.pc = "peakGain"
    /\ timer' = [pc |-> "lowCutSlope",
                 chainSettings |-> [timer.chainSettings EXCEPT !.peakGain = params.peakGain],
                 readVer |-> dhist.changes]
    /\ UNCHANGED <<params, listener, parametersChanged, monoChain, dhist,
                   fifoVars, samplerVars, cutVars, procVars, pathVars, hostVars>>

\* getChainSettings: settings.lowCutSlope = ...->load()
ReadLowCutSlope ==
    /\ timer.pc = "lowCutSlope"
    /\ timer' = [pc |-> "highCutSlope",
                 chainSettings |-> [timer.chainSettings EXCEPT
                                       !.lowCutSlope = params.lowCutSlope],
                 readVer |-> timer.readVer]
    /\ UNCHANGED <<params, listener, parametersChanged, monoChain, dhist,
                   fifoVars, samplerVars, cutVars, procVars, pathVars, hostVars>>

\* getChainSettings: settings.highCutSlope = ...->load()
ReadHighCutSlope ==
    /\ timer.pc = "highCutSlope"
    /\ timer' = [pc |-> "update",
                 chainSettings |-> [timer.chainSettings EXCEPT
                                       !.highCutSlope = params.highCutSlope],
                 readVer |-> timer.readVer]
    /\ UNCHANGED <<params, listener, parametersChanged, monoChain, dhist,
                   fifoVars, samplerVars, cutVars, procVars, pathVars, hostVars>>

\* An updateChain that ends by clearing the flag.
UpdateChain_ClearsFlag ==
    /\ timer.pc = "update"
    /\ monoChain' = updateChain(monoChain, timer.chainSettings, sampleRate)
    /\ parametersChanged' = FALSE
    /\ timer' = IdleTimer
    /\ dhist' = [dhist EXCEPT !.shownVer = timer.readVer]
    /\ UNCHANGED <<params, listener, fifoVars, samplerVars, cutVars, procVars, pathVars, hostVars>>

\* An updateChain that updates the processor's leftChain.
UpdateChain_OnLeftChain ==
    /\ timer.pc = "update"
    /\ leftChain' = updateChain(leftChain, timer.chainSettings, sampleRate)
    /\ timer' = IdleTimer
    /\ dhist' = [dhist EXCEPT !.shownVer = timer.readVer]
    /\ UNCHANGED <<params, listener, parametersChanged, monoChain, sampleRate, chainsPrepared,
                   rightChain, coefficientsPtr, thread, ahist, responseCurve,
                   fifoVars, samplerVars, cutVars, pathVars, hostVars>>

\* updateChain after getChainSettings: the coefficients are designed and the
\* display chain updated; the tick ends (repaint).
UpdateChain ==
    /\ timer.pc = "update"
    /\ monoChain' = updateChain(monoChain, timer.chainSettings, sampleRate)
    /\ timer' = IdleTimer
    /\ dhist' = [dhist EXCEPT !.shownVer = timer.readVer]
    /\ UNCHANGED <<params, listener, parametersChanged, fifoVars, samplerVars, cutVars, procVars, pathVars, hostVars>>

TimerNext == TimerCallback \/ ReadPeakGain \/ ReadLowCutSlope \/ ReadHighCutSlope \/ UpdateChain

DisplayNext == ParamChange \/ ParameterValueChanged \/ TimerNext

SpecDisplay == Init /\ [][DisplayNext]_vars

\* The timer keeps ticking and a tick runs to its end; a listener that was
\* called returns.
SpecDisplayFair ==
    /\ Init
    /\ [][DisplayNext]_vars
    /\ WF_vars(TimerNext)
    /\ WF_vars(ParameterValueChanged)

\* C9: a tick runs updateChain exactly when a notification came since the
\* last tick that ran it, so one tick, the next one, refreshes for a whole
\* burst of notifications and a tick with no new notification does not; the
\* flag is false right after the tick's compare-and-set succeeds.
C9_OneRefreshPerBurst ==
    /\ dhist.lastTick.ran <=> dhist.lastTick.notifiedBefore
    /\ dhist.lastTick.ran => ~dhist.lastTick.flagAfter
    /\ parametersChanged <=> dhist.notified

\* The first tick to refresh did so for a burst of two notifications that
\* came while no tick was running.
C9_Witness ==
    /\ dhist.lastTick.ran
    /\ dhist.lastTick.burst = 2
    /\ dhist.refreshes = 1
    /\ ~parametersChanged

\* The display chain is the one updateChain derives from the parameter store.
DisplayMatches ==
    /\ \A i \in Stages : monoChain.lowCut.bypassed[i] <=> (i > params.lowCutSlope)
    /\ \A i \in Stages : monoChain.highCut.bypassed[i] <=> (i > params.highCutSlope)
    /\ \A i \in 0 .. params.lowCutSlope :
          monoChain.lowCut.coefficients[i] = makeCutFilter("lowcut", params.lowCutSlope)[i]
    /\ \A i \in 0 .. params.highCutSlope :
          monoChain.highCut.coefficients[i] = makeCutFilter("highcut", params.highCutSlope)[i]
    /\ monoChain.peak.coefficients = makePeakFilter(params, sampleRate)

\* C10: with the timer ticking, every parameter change whose notification
\* was delivered is followed by a refresh of the display chain that read every
\* parameter no earlier than that change, and once the parameters stop
\* changing the display chain ends up, for good, as the one derived from the
\* parameter store.
C10_NoChangeLost ==
    /\ \A k \in 1 .. MaxChanges : (dhist.notifiedVer >= k) ~> (dhist.shownVer >= k)
    /\ <>[]DisplayMatches

\* A refresh that read a value older than the last change has been applied
\* while the notification of that change waits for the next tick.
C10_Witness ==
    /\ dhist.changes = 2
    /\ dhist.notifiedVer = 2
    /\ dhist.shownVer = 1
    /\ timer.pc = "idle"
    /\ parametersChanged
    /\ ~DisplayMatches

-----------------------------------------------------------------------------
(* SimpleEQAudioProcessor: prepareToPlay, processBlock on the audio thread  *)
(* and setStateInformation on the message thread, statement by statement   *)
(* (SpecAudio). Nothing in processBlock tests that prepareToPlay has run,   *)
(* so the model lets the host call it on an unprepared processor too.      *)

\* getChainSettings(apvts), as one read of every parameter
getChainSettings(apvts) ==
    [peakGain |-> apvts.peakGain, lowCutSlope |-> apvts.lowCutSlope,
     highCutSlope |-> apvts.highCutSlope]

\* updatePeakFilter on one chain
updatePeakFilter(chain, chainSettings, rate) ==
    [chain EXCEPT !.peak.coefficients =
                      updateCoefficients(@, makePeakFilter(chainSettings, rate))]

\* updateLowCutFilters on one chain
updateLowCutFilters(chain, chainSettings) ==
    [chain EXCEPT !.lowCut = updateCutFilter(@, makeCutFilter("lowcut", chainSettings.lowCutSlope),
                                             chainSettings.lowCutSlope)]

\* updateHighCutFilters on one chain
updateHighCutFilters(chain, chainSettings) ==
    [chain EXCEPT !.highCut = updateCutFilter(@, makeCutFilter("highcut", chainSettings.highCutSlope),
                                              chainSettings.highCutSlope)]

\* updateFilters on one chain, run with no other thread in between
updateFilters(chain, chainSettings, rate) ==
    updateHighCutFilters(
        updateLowCutFilters(updatePeakFilter(chain, chainSettings, rate), chainSettings),
        chainSettings)

\* The statements of updateFilters after its entry, in source order:
\* getChainSettings loads the parameters one by one; updatePeakFilter designs
\* peakCoefficients and assigns it to the left, then the right Peak filter's
\* Coefficients object (*old = *replacements copies the numerator, then the
\* denominator); updateLowCutFilters and updateHighCutFilters run
\* updateCutFilter on the left, then the right chain: it bypasses the four
\* stages, then runs the cases of its switch.
UpdateFiltersSteps ==
    << [op |-> "peakGain", chain |-> "none"],
       [op |-> "lowCutSlope", chain |-> "none"],
       [op |-> "highCutSlope", chain |-> "none"],
       [op |-> "makePeak", chain |-> "none"],
       [op |-> "copyB", chain |-> "left"],
       [op |-> "copyA", chain |-> "left"],
       [op |-> "copyB", chain |-> "right"],
       [op |-> "copyA", chain |-> "right"],
       [op |-> "bypassLowCut", chain |-> "left"],
       [op |-> "lowCut", chain |-> "left"],
       [op |-> "bypassLowCut", chain |-> "right"],
       [op |-> "lowCut", chain |-> "right"],
       [op |-> "bypassHighCut", chain |-> "left"],
       [op |-> "highCut", chain |-> "left"],
       [op |-> "bypassHighCut", chain |-> "right"],
       [op |-> "highCut", chain |-> "right"] >>

\* leftChain.process(leftContext); rightChain.process(rightContext): a chain
\* reads its low-cut stages and the Peak filter's numerator, then the Peak
\* filter's denominator and its high-cut stages.
ProcessSteps ==
    << [op |-> "filterB", chain |-> "left"],
       [op |-> "filterA", chain |-> "left"],
       [op |-> "filterB", chain |-> "right"],
       [op |-> "filterA", chain |-> "right"] >>

\* auto leftBlock = block.getSingleChannelBlock(0); auto rightBlock =
\* block.getSingleChannelBlock(1): the channel of the buffer each chain
\* processes.
SingleChannelBlock == [left |-> 0, right |-> 1]

\* processBlock runs updateFilters and then filters; setStateInformation
\* runs updateFilters and returns.
StepsOf(t) == IF t = "audio" THEN UpdateFiltersSteps \o ProcessSteps ELSE UpdateFiltersSteps

At(t, op) == thread[t].pc \in 1 .. Len(StepsOf(t)) /\ StepsOf(t)[thread[t].pc].op = op

\* The chain the current statement of thread t works on.
ChainAt(t) == StepsOf(t)[thread[t].pc].chain

ChainOf(c) == IF c = "left" THEN leftChain ELSE rightChain

\* After its last statement the call returns.
Advance(t) ==
    IF thread[t].pc = Len(StepsOf(t)) THEN IdleThread ELSE [thread[t] EXCEPT !.pc = @ + 1]

\* Thread t has written a real-time chain.
Wrote(t) ==
    [ahist EXCEPT !.writers = @ \cup {t},
                  !.overlap = @ \/ (t # "audio" /\ thread["audio"].pc # 0)]

\* isBusesLayoutSupported(layouts): the main output is mono or stereo, and
\* the main input is the same channel set.
isBusesLayoutSupported(layouts) ==
    IF layouts.out # monoChannels /\ layouts.out # stereoChannels
    THEN FALSE
    ELSE IF layouts.out # layouts.in THEN FALSE ELSE TRUE

\* The host proposes a layout before it prepares the processor, while no
\* call runs; the layout is set when isBusesLayoutSupported accepts it. The
\* buffer of every later processBlock has the channels of that layout.
SetBusesLayout ==
    /\ ~chainsPrepared
    /\ \A t \in Threads : thread[t].pc = 0
    /\ \E layouts \in [in : ChannelSets, out : ChannelSets] :
          busesLayout' = IF isBusesLayoutSupported(layouts) THEN layouts ELSE busesLayout
    /\ UNCHANGED <<fifoVars, samplerVars, cutVars, displayVars, procVars, pathVars>>

\* prepareToPlay(sampleRate, samplesPerBlock): the host calls it while no
\* block is processed and no state is restored. The wrapper has stored the
\* rate (getSampleRate()); both chains are prepared, then updateFilters().
PrepareToPlay ==
    /\ \A t \in Threads : thread[t].pc = 0
    /\ \E rate \in SampleRates \ {sampleRate} :
          /\ sampleRate' = rate
          /\ leftChain' = updateFilters(leftChain, getChainSettings(params), rate)
          /\ rightChain' = updateFilters(rightChain, getChainSettings(params), rate)
    /\ chainsPrepared' = TRUE
    /\ ahist' = [ahist EXCEPT !.writers = {}, !.overlap = FALSE]
    /\ UNCHANGED <<coefficientsPtr, thread, responseCurve,
                   fifoVars, samplerVars, cutVars, displayVars, pathVars, hostVars>>

\* processBlock up to updateFilters(): with as many inputs as outputs, no
\* channel is cleared.
ProcessBlock ==
    /\ thread["audio"].pc = 0
    /\ ahist.blocks < MaxBlocks
    /\ thread' = [thread EXCEPT !["audio"].pc = 1]
    /\ ahist' = [ahist EXCEPT !.blocks = @ + 1]
    /\ UNCHANGED <<sampleRate, chainsPrepared, leftChain, rightChain, coefficientsPtr,
                   responseCurve, fifoVars, samplerVars, cutVars, displayVars, pathVars, hostVars>>

\* setStateInformation up to updateFilters(): a valid tree replaces the
\* state of the parameter store, whose listeners are told of the parameters
\* that changed; an invalid tree changes nothing.
SetStateInformation ==
    /\ thread["message"].pc = 0
    /\ ahist.restores < MaxRestores
    /\ \E tree \in StateTrees \cup {InvalidTree} :
          IF tree # InvalidTree
          THEN /\ params' = tree
               /\ parametersChanged' = (parametersChanged \/ tree # params)
               /\ dhist' = IF tree # params
                           THEN [dhist EXCEPT !.notified = TRUE,
                                              !.burst = Min(@ + 1, MaxChanges)]
                           ELSE dhist
               /\ thread' = [thread EXCEPT !["message"].pc = 1]
          ELSE UNCHANGED <<params, parametersChanged, dhist, thread>>
    /\ ahist' = [ahist EXCEPT !.restores = @ + 1]
    /\ UNCHANGED <<sampleRate, chainsPrepared, leftChain, rightChain, coefficientsPtr,
                   responseCurve, listener, timer, monoChain,
                   fifoVars, samplerVars, cutVars, pathVars, hostVars>>

\* getChainSettings: settings.peakGainInDecibels = ...->load()
LoadPeakGain(t) ==
    /\ At(t, "peakGain")
    /\ thread' = [thread EXCEPT ![t] = [Advance(t) EXCEPT !.chainSettings.peakGain = params.peakGain]]
    /\ UNCHANGED <<sampleRate, chainsPrepared, leftChain, rightChain, coefficientsPtr, ahist,
                   responseCurve, fifoVars, samplerVars, cutVars, displayVars, pathVars, hostVars>>

\* getChainSettings: settings.lowCutSlope = ...->load()
LoadLowCutSlope(t) ==
    /\ At(t, "lowCutSlope")
    /\ thread' = [thread EXCEPT ![t] = [Advance(t) EXCEPT
                                           !.chainSettings.lowCutSlope = params.lowCutSlope]]
    /\ UNCHANGED <<sampleRate, chainsPrepared, leftChain, rightChain, coefficientsPtr, ahist,
                   responseCurve, fifoVars, samplerVars, cutVars, displayVars, pathVars, hostVars>>

\* getChainSettings: settings.highCutSlope = ...->load()
LoadHighCutSlope(t) ==
    /\ At(t, "highCutSlope")
    /\ thread' = [thread EXCEPT ![t] = [Advance(t) EXCEPT
                                           !.chainSettings.highCutSlope = params.highCutSlope]]
    /\ UNCHANGED <<sampleRate, chainsPrepared, leftChain, rightChain, coefficientsPtr, ahist,
                   responseCurve, fifoVars, samplerVars, cutVars, displayVars, pathVars, hostVars>>

\* updatePeakFilter: auto peakCoefficients = makePeakFilter(chainSettings, getSampleRate())
MakePeakFilter(t) ==
    /\ At(t, "makePeak")
    /\ thread' = [thread EXCEPT ![t] = [Advance(t) EXCEPT
                     !.peakCoefficients = makePeakFilter(thread[t].chainSettings, sampleRate)]]
    /\ UNCHANGED <<sampleRate, chainsPrepared, leftChain, rightChain, coefficientsPtr, ahist,
                   responseCurve, fifoVars, samplerVars, cutVars, displayVars, pathVars, hostVars>>

\* updateCoefficients(chain.get<Peak>().coefficients, peakCoefficients):
\* *old = *replacements assigns to the object old points to, here its
\* numerator. The pointer old itself is not assigned.
UpdateCoefficientsB(t) ==
    /\ At(t, "copyB")
    /\ LET c == ChainAt(t)
           new == [ChainOf(c) EXCEPT !.peak.coefficients.kind = thread[t].peakCoefficients.kind,
                                     !.peak.coefficients.b = thread[t].peakCoefficients.b]
       IN  /\ leftChain' = IF c = "left" THEN new ELSE leftChain
           /\ rightChain' = IF c = "right" THEN new ELSE rightChain
           /\ thread' = [thread EXCEPT ![t] = [Advance(t) EXCEPT
                                                  !.before = ChainOf(c).peak.coefficients]]
    /\ ahist' = Wrote(t)
    /\ UNCHANGED <<sampleRate, chainsPrepared, coefficientsPtr,
                   responseCurve, fifoVars, samplerVars, cutVars, displayVars, pathVars, hostVars>>

\* *old = *replacements, the denominator; updateCoefficients returns.
UpdateCoefficientsA(t) ==
    /\ At(t, "copyA")
    /\ LET c == ChainAt(t)
           new == [ChainOf(c) EXCEPT !.peak.coefficients.a = thread[t].peakCoefficients.a]
       IN  /\ leftChain' = IF c = "left" THEN new ELSE leftChain
           /\ rightChain' = IF c = "right" THEN new ELSE rightChain
           /\ ahist' = [Wrote(t) EXCEPT
                           !.lastUpdate =
                               [done |-> TRUE, by |-> t, chain |-> c,
                                ptrBefore |-> coefficientsPtr[c],
                                ptrAfter |-> coefficientsPtr[c],
                                objBefore |-> thread[t].before,
                                objAfter |-> new.peak.coefficients,
                                replacements |-> thread[t].peakCoefficients]]
    /\ thread' = [thread EXCEPT ![t] = [Advance(t) EXCEPT !.before = DefaultPeakCoefficients]]
    /\ UNCHANGED <<sampleRate, chainsPrepared, coefficientsPtr,
                   responseCurve, fifoVars, samplerVars, cutVars, displayVars, pathVars, hostVars>>

\* updateCutFilter: setBypassed<0>(true) .. setBypassed<3>(true)
setBypassedAll(cut) == [cut EXCEPT !.bypassed = [i \in Stages |-> TRUE]]

\* updateCutFilter on a low-cut filter, up to its switch
BypassLowCut(t) ==
    /\ At(t, "bypassLowCut")
    /\ LET c == ChainAt(t)
           new == [ChainOf(c) EXCEPT !.lowCut = setBypassedAll(@)]
       IN  /\ leftChain' = IF c = "left" THEN new ELSE leftChain
           /\ rightChain' = IF c = "right" THEN new ELSE rightChain
    /\ thread' = [thread EXCEPT ![t] = Advance(t)]
    /\ ahist' = Wrote(t)
    /\ UNCHANGED <<sampleRate, chainsPrepared, coefficientsPtr,
                   responseCurve, fifoVars, samplerVars, cutVars, displayVars, pathVars, hostVars>>

\* updateCutFilter on a high-cut filter, up to its switch
BypassHighCut(t) ==
    /\ At(t, "bypassHighCut")
    /\ LET c == ChainAt(t)
           new == [ChainOf(c) EXCEPT !.highCut = setBypassedAll(@)]
       IN  /\ leftChain' = IF c = "left" THEN new ELSE leftChain
           /\ rightChain' = IF c = "right" THEN new ELSE rightChain
    /\ thread' = [thread EXCEPT ![t] = Advance(t)]
    /\ ahist' = Wrote(t)
    /\ UNCHANGED <<sampleRate, chainsPrepared, coefficientsPtr,
                   responseCurve, fifoVars, samplerVars, cutVars, displayVars, pathVars, hostVars>>

\* updateLowCutFilters: updateCutFilter(chain.get<LowCut>(), cutCoefficients, lowCutSlope)
UpdateLowCutFilters(t) ==
    /\ At(t, "lowCut")
    /\ LET c == ChainAt(t)
           new == updateLowCutFilters(ChainOf(c), thread[t].chainSettings)
       IN  /\ leftChain' = IF c = "left" THEN new ELSE leftChain
           /\ rightChain' = IF c = "right" THEN new ELSE rightChain
    /\ thread' = [thread EXCEPT ![t] = Advance(t)]
    /\ ahist' = Wrote(t)
    /\ UNCHANGED <<sampleRate, chainsPrepared, coefficientsPtr,
                   responseCurve, fifoVars, samplerVars, cutVars, displayVars, pathVars, hostVars>>

\* updateHighCutFilters: updateCutFilter(chain.get<HighCut>(), highCutCoefficients, highCutSlope)
UpdateHighCutFilters(t) ==
    /\ At(t, "highCut")
    /\ LET c == ChainAt(t)
           new == updateHighCutFilters(ChainOf(c), thread[t].chainSettings)
       IN  /\ leftChain' = IF c = "left" THEN new ELSE leftChain
           /\ rightChain' = IF c = "right" THEN new ELSE rightChain
    /\ thread' = [thread EXCEPT ![t] = Advance(t)]
    /\ ahist' = Wrote(t)
    /\ UNCHANGED <<sampleRate, chainsPrepared, coefficientsPtr,
                   responseCurve, fifoVars, samplerVars, cutVars, displayVars, pathVars, hostVars>>

\* chain.process(context), first half: the low-cut stages and the numerator
\* of the Peak filter are read and applied.
ChainProcessB ==
    /\ At("audio", "filterB")
    /\ LET c == ChainAt("audio")
       IN  thread' = [thread EXCEPT !["audio"] = [Advance("audio") EXCEPT
                         !.seen = [ChainOf(c) EXCEPT
                                      !.peak.coefficients.a = DefaultPeakCoefficients.a,
                                      !.highCut = NewCutFilter]]]
    /\ UNCHANGED <<sampleRate, chainsPrepared, leftChain, rightChain, coefficientsPtr, ahist,
                   responseCurve, fifoVars, samplerVars, cutVars, displayVars, pathVars, hostVars>>

\* chain.process(context), second half: the denominator of the Peak filter
\* and the high-cut stages are read and applied; the block is filtered.
ChainProcessA ==
    /\ At("audio", "filterA")
    /\ LET c == ChainAt("audio")
           seen == thread["audio"].seen
           used == [seen EXCEPT !.peak.coefficients.a = ChainOf(c).peak.coefficients.a,
                                !.highCut = ChainOf(c).highCut]
       IN  ahist' = [ahist EXCEPT
                        !.filtered = [done |-> TRUE, chain |-> c, prepared |-> chainsPrepared,
                                      rate |-> sampleRate,
                                      settings |-> thread["audio"].chainSettings,
                                      used |-> used,
                                      channel |-> SingleChannelBlock[c],
                                      numChannels |-> busesLayout.out]]
    /\ thread' = [thread EXCEPT !["audio"] = [Advance("audio") EXCEPT !.seen = NewMonoChain]]
    /\ UNCHANGED <<sampleRate, chainsPrepared, leftChain, rightChain, coefficientsPtr,
                   responseCurve, fifoVars, samplerVars, cutVars, displayVars, pathVars, hostVars>>

UpdateFiltersNext(t) ==
    \/ LoadPeakGain(t) \/ LoadLowCutSlope(t) \/ LoadHighCutSlope(t) \/ MakePeakFilter(t)
    \/ UpdateCoefficientsB(t) \/ UpdateCoefficientsA(t)
    \/ BypassLowCut(t) \/ UpdateLowCutFilters(t)
    \/ BypassHighCut(t) \/ UpdateHighCutFilters(t)

AudioNext ==
    \/ SetBusesLayout
    \/ PrepareToPlay
    \/ ProcessBlock
    \/ SetStateInformation
    \/ \E t \in Threads : UpdateFiltersNext(t)
    \/ ChainProcessB
    \/ ChainProcessA

SpecAudio == Init /\ [][AudioNext]_vars

\* The bypass flags and the coefficients of the active stages of chain are
\* those updateFilters derives from chainSettings at sample rate rate.
ChainMatches(chain, chainSettings, rate) ==
    /\ \A i \in Stages : chain.lowCut.bypassed[i] <=> (i > chainSettings.lowCutSlope)
    /\ \A i \in Stages : chain.highCut.bypassed[i] <=> (i > chainSettings.highCutSlope)
    /\ \A i \in 0 .. chainSettings.lowCutSlope :
          chain.lowCut.coefficients[i] = makeCutFilter("lowcut", chainSettings.lowCutSlope)[i]
    /\ \A i \in 0 .. chainSettings.highCutSlope :
          chain.highCut.coefficients[i] = makeCutFilter("highcut", chainSettings.highCutSlope)[i]
    /\ ~chain.peak.bypassed
    /\ chain.peak.coefficients = makePeakFilter(chainSettings, rate)

\* C11: every block is filtered with the coefficients and bypass flags that
\* were derived from the settings processBlock read during that same call.
C11_Claim ==
    ahist.filtered.done =>
        ChainMatches(ahist.filtered.used, ahist.filtered.settings, ahist.filtered.rate)

\* C12: once the processor is prepared the real-time chains are written by
\* the audio thread only, and no other thread writes them while a
\* processBlock call is running.
C12_Claim ==
    chainsPrepared => (ahist.writers \subseteq {"audio"} /\ ~ahist.overlap)

\* What a chain filtered with was never torn: the numerator and the
\* denominator it read belong to one and the same coefficient set.
NoTornRead ==
    ahist.filtered.done =>
        ahist.filtered.used.peak.coefficients.b = ahist.filtered.used.peak.coefficients.a

\* C13: updateCoefficients has replaced the stage's reference and left the
\* object the stage referenced before as it was, and a chain that filters
\* while another thread updates it reads the numerator and the denominator
\* of one and the same coefficient set.
C13_Claim ==
    /\ ahist.lastUpdate.done =>
          /\ ahist.lastUpdate.ptrAfter # ahist.lastUpdate.ptrBefore
          /\ ahist.lastUpdate.objAfter = ahist.lastUpdate.objBefore
    /\ NoTornRead

\* Thread t runs the last statement of updateFilters.
UpdateFiltersReturns(t) ==
    /\ At(t, "highCut")
    /\ ChainAt(t) = "right"
    /\ thread'[t] # thread[t]

\* C27: whenever an updateFilters call returns, in processBlock or in
\* setStateInformation, the left and the right chain have the same bypass
\* flags and the same coefficients in every stage.
C27_Claim ==
    [][(\E t \in Threads : UpdateFiltersReturns(t)) => leftChain' = rightChain']_vars

\* The active stages of cut are the stages 0..S of one slope S, and each
\* carries the coefficients designed for S.
CutConsistent(kind, cut) ==
    \E S \in Slopes :
        /\ \A i \in Stages : cut.bypassed[i] <=> (i > S)
        /\ \A i \in 0 .. S : cut.coefficients[i] = makeCutFilter(kind, S)[i]

\* C26: what a chain filtered a block with was no partially updated cut
\* filter: its low cut and its high cut each had the stages of one slope
\* active, with the coefficients of that slope, and neither was in the
\* all-bypassed state updateCutFilter passes through.
C26_Claim ==
    ahist.filtered.done =>
        /\ CutConsistent("lowcut", ahist.filtered.used.lowCut)
        /\ CutConsistent("highcut", ahist.filtered.used.highCut)

\* C24: once prepareToPlay has run the sampler is prepared, and when a
\* processBlock call has returned the sampler has been fed the samples of
\* every block processed so far (a block has at least one sample).
C24_Claim ==
    /\ chainsPrepared => sampler.prepared
    /\ (thread["audio"].pc = 0 /\ ahist.filtered.done) => shist.fed >= ahist.blocks

\* C28: the channel of the buffer a chain filtered exists in the buffer
\* processBlock was given, for every layout isBusesLayoutSupported accepted.
C28_Claim == ahist.filtered.done => ahist.filtered.channel < ahist.filtered.numChannels

\* C29: the sampler named for a channel reads the channel of the buffer that
\* the chain of the same name filtered.
C29_Claim ==
    ahist.filtered.done => channelToUse[ahist.filtered.chain] = ahist.filtered.channel

\* C19: no block is filtered by a chain that prepareToPlay has not prepared.
C19_Claim == ahist.filtered.done => ahist.filtered.prepared

-----------------------------------------------------------------------------
(* The editor beside the processor (SpecEditor): the editor was created on *)
(* the unprepared processor (Init); the host prepares the processor and    *)
(* changes parameters while the timer ticks and the component paints.      *)
(* timerCallback and paint both run on the message thread, so paint never  *)
(* runs inside a tick.                                                     *)

\* The coefficient sets of the stages of a cut filter that are not bypassed.
ActiveCutStages(cut) ==
    LET active == SelectSeq(<<0, 1, 2, 3>>, LAMBDA i : ~cut.bypassed[i])
    IN  [k \in 1 .. Len(active) |-> cut.coefficients[active[k]]]

\* The coefficient sets paint takes getMagnitudeForFrequency of, in the
\* order of its tests: the peak, the low-cut stages, the high-cut stages.
ActiveStages(chain) ==
    (IF chain.peak.bypassed THEN <<>> ELSE <<chain.peak.coefficients>>)
        \o ActiveCutStages(chain.lowCut) \o ActiveCutStages(chain.highCut)

\* ResponseCurveComponent::paint: the response curve is computed from the
\* stages of monoChain that are not bypassed.
Paint ==
    /\ timer.pc = "idle"
    /\ responseCurve' = [drawn |-> TRUE, stages |-> ActiveStages(monoChain)]
    /\ UNCHANGED <<sampleRate, chainsPrepared, leftChain, rightChain, coefficientsPtr, thread,
                   ahist, fifoVars, samplerVars, cutVars, displayVars, pathVars, hostVars>>

EditorNext == DisplayNext \/ Paint \/ PrepareToPlay

SpecEditor == Init /\ [][EditorNext]_vars

\* C14: no step of the timer callback (updateChain included) and no paint
\* changes leftChain, rightChain or what their Coefficients pointers refer
\* to, the constructor left them as the processor constructed them, and the
\* display chain's Coefficients object is never the object of a real-time
\* chain.
C14_DisplayOnly ==
    /\ [](~chainsPrepared => (leftChain = NewMonoChain /\ rightChain = NewMonoChain))
    /\ [][(TimerNext \/ Paint) =>
             UNCHANGED <<leftChain, rightChain, coefficientsPtr>>]_vars
    /\ [](coefficientsPtr.mono \notin {coefficientsPtr.left, coefficientsPtr.right})

\* The display chain was refreshed and painted after the processor was
\* prepared, and shows other settings than the real-time chains hold.
C14_Witness ==
    /\ chainsPrepared
    /\ dhist.refreshes > 0
    /\ responseCurve.drawn
    /\ leftChain # NewMonoChain
    /\ monoChain.lowCut # leftChain.lowCut
    /\ monoChain.peak.coefficients = makePeakFilter(params, sampleRate)

\* C18: no chain holds peak coefficients that makePeakFilter designed with a
\* sample rate <= 0, whichever path called it.
C18_Claim ==
    \A chain \in {monoChain, leftChain, rightChain} :
        chain.peak.coefficients.kind = "peak" =>
            (chain.peak.coefficients.b[2] > 0 /\ chain.peak.coefficients.a[2] > 0)

-----------------------------------------------------------------------------
(* PathProducer::process, one call per timer tick (SpecPath)               *)
(* The audio thread keeps feeding the sampler while the timer thread runs  *)
(* the three loops of process: blocks into FFT frames, frames into paths,  *)
(* paths into leftChannelFFTPath. One action is one iteration of a loop,   *)
(* or the test that ends it.                                               *)

\* The frame FFTDataGenerator computes from audioData: the first fftSize
\* samples, windowed, transformed, the first numBins magnitudes normalised
\* and converted to decibels. The transform of silence is zero in every
\* bin, which gainToDecibels maps to negativeInfinity; the entries above
\* numBins stay zero. The transform of any other signal is not computed:
\* entry i of the frame is written as Bin(i, samples).
fftDataOf(audioData) ==
    LET fftSize == getFFTSize
        numBins == fftSize \div 2
        samples == SubSeq(audioData, 1, fftSize)
        silent == \A k \in 1 .. fftSize : samples[k] = 0
    IN  [i \in 1 .. 2 * fftSize |->
            IF silent
            THEN (IF i <= numBins THEN Decibels(negativeInfinity) ELSE Decibels(0))
            ELSE Bin(i - 1, samples)]

\* FFTDataGenerator::produceFFTDataForRendering: the result of the push is
\* not looked at.
produceFFTDataForRendering(f, audioData) == push(f, fftDataOf(audioData))

\* The lambda map of generatePath, juce::jmap(v, negativeInfinity, 0.f,
\* bottom, top): an affine function of v, so finite for a finite v and NaN
\* or infinite for any other. The value is written as the level it maps.
map(v) == [fin |-> v.fin, v |-> <<"jmap", v.v>>]

\* const int pathResolution = 2
pathResolution == 2

\* int binX = std::floor(normalizedBinX * width): grows with the bin number,
\* and is written as the bin number.
binX(binNum) == binNum

\* The lineTo loop of generatePath, from bin binNum on.
RECURSIVE lineTos(_, _, _)
lineTos(renderData, binNum, numBins) ==
    IF binNum >= numBins
    THEN <<>>
    ELSE LET y == map(renderData[binNum + 1])
         IN  (IF y.fin THEN <<[x |-> binX(binNum), y |-> y]>> ELSE <<>>)
                 \o lineTos(renderData, binNum + pathResolution, numBins)

\* AnalyserPathGenerator::generatePath up to pathFifo.push(p): the path p.
\* The jassert on y compiles to nothing; bin 0 has no other test.
generatePath(renderData, fftSize) ==
    LET numBins == fftSize \div 2
        y == map(renderData[1])
    IN  <<[x |-> 0, y |-> y]>> \o lineTos(renderData, 1, numBins)

\* A process that writes the block over the end of monoBuffer without
\* shifting what the buffer holds.
shiftIn_Overwrite(mono, block) ==
    LET n == Len(mono)
        size == Len(block)
    IN  [i \in 1 .. n |-> IF i <= n - size THEN mono[i] ELSE block[i - (n - size)]]

\* A process that resets monoBuffer for every block: the block is written at
\* the end of a cleared buffer.
shiftIn_HardReset(mono, block) ==
    LET n == Len(mono)
        size == Len(block)
    IN  [i \in 1 .. n |-> IF i <= n - size THEN 0 ELSE block[i - (n - size)]]

\* The two FloatVectorOperations::copy calls of process: monoBuffer shifted
\* left by the size of the block, the block written at its end.
shiftIn(mono, block) ==
    LET n == Len(mono)
        size == Len(block)
    IN  [i \in 1 .. n |-> IF i <= n - size THEN mono[i + size] ELSE block[i - (n - size)]]

\* timerCallback calls leftPathProducer.process: tempIncomingBuffer is new.
ProcessBegin ==
    /\ pp.pc = 0
    /\ phist.ticks < MaxTicks
    /\ pp' = [pc |-> 1]
    /\ buf' = ZeroBlock(0)
    /\ phist' = [phist EXCEPT !.pulled = 0, !.framesDropped = 0]
    /\ UNCHANGED <<sampler, audioBufferFifo, shist, monoBuffer, fftDataFifo, pathFifo,
                   leftChannelFFTPath, fifoVars, cutVars, displayVars, procVars, hostVars>>

\* One iteration of the first loop: a block is pulled, shifted into
\* monoBuffer, and the frame of monoBuffer is pushed.
PullAudioBuffer ==
    /\ pp.pc = 1
    /\ getNumAvailableForReading(audioBufferFifo) > 0
    /\ LET res == pull(audioBufferFifo, buf)
           mono == IF res.ok THEN shiftIn(monoBuffer, res.t) ELSE monoBuffer
           pushed == IF res.ok THEN produceFFTDataForRendering(fftDataFifo, mono)
                     ELSE [fifo |-> fftDataFifo, ok |-> TRUE]
       IN  /\ audioBufferFifo' = res.fifo
           /\ buf' = res.t
           /\ monoBuffer' = mono
           /\ fftDataFifo' = pushed.fifo
           /\ shist' = [shist EXCEPT !.pulledBlocks = IF res.ok THEN Append(@, res.t) ELSE @,
                                     !.last = NoSamplerPush]
           /\ phist' = [phist EXCEPT !.pulled = IF res.ok THEN @ + 1 ELSE @,
                                     !.framesDropped = IF pushed.ok THEN @ ELSE @ + 1,
                                     !.frame = IF res.ok THEN fftDataOf(mono) ELSE @]
    /\ UNCHANGED <<sampler, pathFifo, leftChannelFFTPath, pp,
                   fifoVars, cutVars, displayVars, procVars, hostVars>>

\* getNumCompleteBuffersAvailable() is 0: the first loop ends.
AudioBuffersDone ==
    /\ pp.pc = 1
    /\ getNumAvailableForReading(audioBufferFifo) = 0
    /\ pp' = [pc |-> 2]
    /\ UNCHANGED <<samplerVars, monoBuffer, fftDataFifo, pathFifo, leftChannelFFTPath,
                   phist, fifoVars, cutVars, displayVars, procVars, hostVars>>

\* One iteration of the second loop: a frame is pulled and its path pushed.
PullFFTData ==
    /\ pp.pc = 2
    /\ getNumAvailableForReading(fftDataFifo) > 0
    /\ LET res == pull(fftDataFifo, ZeroBlock(0))
       IN  /\ fftDataFifo' = res.fifo
           /\ pathFifo' = IF res.ok
                          THEN push(pathFifo, generatePath(res.t, getFFTSize)).fifo
                          ELSE pathFifo
           /\ phist' = [phist EXCEPT !.paths = IF res.ok THEN @ + 1 ELSE @]
    /\ UNCHANGED <<samplerVars, monoBuffer, leftChannelFFTPath, pp,
                   fifoVars, cutVars, displayVars, procVars, hostVars>>

\* getNumAvailableFFTDataBlocks() is 0: the second loop ends.
FFTDataDone ==
    /\ pp.pc = 2
    /\ getNumAvailableForReading(fftDataFifo) = 0
    /\ pp' = [pc |-> 3]
    /\ UNCHANGED <<samplerVars, monoBuffer, fftDataFifo, pathFifo, leftChannelFFTPath,
                   phist, fifoVars, cutVars, displayVars, procVars, hostVars>>

\* One iteration of the third loop: pathProducer.getPath(leftChannelFFTPath).
PullPath ==
    /\ pp.pc = 3
    /\ getNumAvailableForReading(pathFifo) > 0
    /\ LET res == pull(pathFifo, leftChannelFFTPath)
       IN  /\ pathFifo' = res.fifo
           /\ leftChannelFFTPath' = res.t
    /\ UNCHANGED <<samplerVars, monoBuffer, fftDataFifo, pp, phist,
                   fifoVars, cutVars, displayVars, procVars, hostVars>>

\* getNumPathsAvailable() is 0: process returns.
ProcessEnd ==
    /\ pp.pc = 3
    /\ getNumAvailableForReading(pathFifo) = 0
    /\ pp' = [pc |-> 0]
    /\ phist' = [phist EXCEPT !.ticks = @ + 1]
    /\ UNCHANGED <<samplerVars, monoBuffer, fftDataFifo, pathFifo, leftChannelFFTPath,
                   fifoVars, cutVars, displayVars, procVars, hostVars>>

ProcessNext ==
    \/ ProcessBegin
    \/ PullAudioBuffer
    \/ AudioBuffersDone
    \/ PullFFTData
    \/ FFTDataDone
    \/ PullPath
    \/ ProcessEnd

PathNext == SamplerPrepare \/ SamplerUpdate \/ ProcessNext

SpecPath == Init /\ [][PathNext]_vars

\* The samples of a sequence of blocks, in order.
RECURSIVE Flatten(_)
Flatten(blocks) == IF blocks = <<>> THEN <<>> ELSE Head(blocks) \o Flatten(Tail(blocks))

\* The last n samples of a sequence of at least n samples.
LastSamples(samples, n) == SubSeq(samples, Len(samples) - n + 1, Len(samples))

\* C23: monoBuffer holds the last getFFTSize samples of what it held at
\* construction followed by every block pulled so far, in pull order; each
\* pull shifts it left by the size of the block and appends the block; and
\* while the first loop runs, every block the tick has pulled has had one
\* frame handed to fftDataFifo (queued there, or refused by the full ring).
C23_SlidingWindow ==
    /\ [](monoBuffer = LastSamples(NewMonoBuffer \o Flatten(shist.pulledBlocks), getFFTSize))
    /\ [][PullAudioBuffer =>
             LET size == Len(buf')
             IN  /\ size <= getFFTSize
                 /\ SubSeq(monoBuffer', 1, getFFTSize - size) =
                        SubSeq(monoBuffer, size + 1, getFFTSize)
                 /\ SubSeq(monoBuffer', getFFTSize - size + 1, getFFTSize) = buf']_vars
    /\ [](pp.pc = 1 =>
             getNumAvailableForReading(fftDataFifo) + phist.framesDropped = phist.pulled)

\* The tick has pulled three blocks of one sample from a prepared sampler:
\* the window holds samples of successive blocks, the newest last.
C23_Witness ==
    /\ pp.pc = 1
    /\ sampler.prepared
    /\ sampler.size = 1
    /\ phist.pulled >= getFFTSize
    /\ monoBuffer[1] > 0
    /\ monoBuffer[getFFTSize] = monoBuffer[1] + getFFTSize - 1

\* C25: the number of audio blocks one tick pulls is bounded by the
\* capacity of the ring, whatever the producer pushes while the tick runs.
C25_Claim == phist.pulled <= Capacity

\* C15: when a tick that pulled at least one block ends, no frame and no
\* path is left queued, and the path retained is the path of the frame of
\* monoBuffer as the newest block pulled in that tick left it.
C15_Claim ==
    (pp.pc = 0 /\ phist.ticks > 0 /\ phist.pulled > 0) =>
        /\ getNumAvailableForReading(fftDataFifo) = 0
        /\ getNumAvailableForReading(pathFifo) = 0
        /\ leftChannelFFTPath = generatePath(fftDataOf(monoBuffer), getFFTSize)

-----------------------------------------------------------------------------
(* AnalyserPathGenerator::generatePath on frames of any content (SpecGen)  *)
(* A frame reaches generatePath with whatever the transform made of the    *)
(* audio: the decibel floor, a level above it, NaN or an infinity.         *)

NaN == NonFinite(0)
Infinity == NonFinite(1)

\* The values a bin of a frame takes.
Levels == {Finite(negativeInfinity), Finite(0), NaN, Infinity}

\* The fftSize of the frames handed to generatePath here: the smallest whose
\* loop draws two bins (1 and 3) and passes over one.
SmallFFTSize == 4 * pathResolution

\* A frame of fftSize * 2 floats whose first bins are low; the bins
\* generatePath does not read are zero.
renderDataOf(low, fftSize) ==
    [i \in 1 .. 2 * fftSize |-> IF i <= Len(low) THEN low[i] ELSE Finite(0)]

\* pathProducer.generatePath(fftData, fftBounds, fftSize, binWidth, -48.f):
\* the path is pushed and the result of the push is not looked at.
GeneratePath ==
    /\ phist.paths < MaxPaths
    /\ \E low \in [1 .. SmallFFTSize \div 2 -> Levels] :
          LET fftSize == SmallFFTSize
          IN  pathFifo' = push(pathFifo, generatePath(renderDataOf(low, fftSize), fftSize)).fifo
    /\ phist' = [phist EXCEPT !.paths = @ + 1]
    /\ UNCHANGED <<samplerVars, monoBuffer, fftDataFifo, leftChannelFFTPath, pp,
                   fifoVars, cutVars, displayVars, procVars, hostVars>>

\* AnalyserPathGenerator::getPath(leftChannelFFTPath)
GetPath ==
    /\ LET res == pull(pathFifo, leftChannelFFTPath)
       IN  /\ pathFifo' = res.fifo
           /\ leftChannelFFTPath' = res.t
    /\ UNCHANGED <<samplerVars, monoBuffer, fftDataFifo, pp, phist,
                   fifoVars, cutVars, displayVars, procVars, hostVars>>

GenNext == GeneratePath \/ GetPath

SpecGen == Init /\ [][GenNext]_vars

\* Every point of the path has finite coordinates.
FinitePath(path) == \A k \in 1 .. Len(path) : path[k].y.fin

\* C20: no path generatePath published, queued or pulled, has a point with a
\* non-finite coordinate, its first point (bin 0) included.
C20_Claim ==
    /\ \A k \in 1 .. getNumAvailableForReading(pathFifo) : FinitePath(Queued(pathFifo)[k])
    /\ FinitePath(leftChannelFFTPath)

-----------------------------------------------------------------------------
(* The analysis window under whole host buffers (SpecWindow)               *)
(* The audio thread hands update one host buffer per call, as long as the  *)
(* block the sampler was prepared for, of silence or of signal, while the  *)
(* timer thread runs PathProducer::process.                                *)

\* SingleChannelSampleFifo::update(buffer): pushNextSampleIntoFifo for every
\* sample of the buffer, in order.
RECURSIVE samplerUpdate(_, _, _)
samplerUpdate(s, a, buffer) ==
    IF buffer = <<>>
    THEN [sampler |-> s, fifo |-> a, dropped |-> FALSE, oob |-> FALSE]
    ELSE LET first == pushNextSampleIntoFifo(s, a, Head(buffer))
             rest == samplerUpdate(first.sampler, first.fifo, Tail(buffer))
         IN  [sampler |-> rest.sampler, fifo |-> rest.fifo,
              dropped |-> first.dropped \/ rest.dropped,
              oob |-> first.oob \/ rest.oob]

\* update with a host buffer of getSize() samples: silence, or the numbers
\* of the samples fed since prepare.
SamplerUpdateBuffer ==
    /\ shist.buffers < MaxBuffers
    /\ \E silence \in BOOLEAN :
          LET n == sampler.size
              buffer == [i \in 1 .. n |-> IF silence THEN 0 ELSE shist.fed + i]
              res == samplerUpdate(sampler, audioBufferFifo, buffer)
          IN  /\ sampler' = res.sampler
              /\ audioBufferFifo' = res.fifo
              /\ shist' = [shist EXCEPT !.fed = @ + n,
                                        !.buffers = @ + 1,
                                        !.dropped = @ \/ res.dropped,
                                        !.oob = @ \/ res.oob,
                                        !.last = NoSamplerPush]
    /\ UNCHANGED <<buf, fifoVars, cutVars, displayVars, procVars, pathVars, hostVars>>

WindowNext == SamplerPrepare \/ SamplerUpdateBuffer \/ ProcessNext

SpecWindow == Init /\ [][WindowNext]_vars

\* ceil(m / s) for s > 0
CeilDiv(m, s) == (m + s - 1) \div s

\* The last n blocks pulled are n blocks of s zeros.
LastBlocksSilent(n, s) ==
    /\ Len(shist.pulledBlocks) >= n
    /\ \A k \in (Len(shist.pulledBlocks) - n + 1) .. Len(shist.pulledBlocks) :
          shist.pulledBlocks[k] = ZeroBlock(s)

\* C21: with blocks of s samples, 1 <= s <= getFFTSize, when the last
\* ceil(getFFTSize / s) + 1 blocks process pulled were all zero, every
\* magnitude bin of the frame computed for the newest of them is at
\* negativeInfinity, whatever monoBuffer held before those blocks.
C21_SilenceFloor ==
    \A s \in 1 .. getFFTSize :
        (/\ sampler.prepared
         /\ sampler.size = s
         /\ LastBlocksSilent(CeilDiv(getFFTSize, s) + 1, s)) =>
            \A i \in 1 .. (getFFTSize \div 2) : phist.frame[i] = Decibels(negativeInfinity)

\* Signal went through the window (a frame that is not silence was queued),
\* then enough blocks of silence of one sample each were pulled.
C21_Witness ==
    /\ sampler.prepared
    /\ sampler.size = 1
    /\ LastBlocksSilent(getFFTSize + 1, 1)
    /\ \E k \in 1 .. Len(shist.pulledBlocks) : shist.pulledBlocks[k][1] > 0
    /\ phist.frame = fftDataOf(ZeroBlock(getFFTSize))

====
